---- MODULE Spec2Model ----
(***************************************************************************)
(* Model of the text-to-transparent-PNG rendering core of StringSpotter    *)
(* (public_html/image_generator.py).                                       *)
(*                                                                         *)
(* Python strings are sequences of one-character strings.  Python values   *)
(* are tagged records, one field name per type so that values of different *)
(* types never compare component-wise:                                     *)
(*    PInt(i)  an int          PStr(s)  a str       PNone  None            *)
(*    PFloat(q) the float q/4 (quarters are exact in IEEE-754 binary)      *)
(*    PInf, PNaN  float('inf'), float('nan')                               *)
(* A call returns Ok(v) or raises: Exc(type, message key).                 *)
(***************************************************************************)
EXTENDS Integers, Sequences, FiniteSets, TLC

-----------------------------------------------------------------------------
(* Python values and call outcomes *)

PInt(i) == [t |-> "int", i |-> i]
PStr(s) == [t |-> "str", s |-> s]
PFloat(q) == [t |-> "float", q |-> q]
PInf == [t |-> "inf"]
PNaN == [t |-> "nan"]
PNone == [t |-> "none"]
PBool(b) == [t |-> "bool", b |-> b]

Ok(v) == [k |-> "ok", v |-> v]
Exc(e, m) == [k |-> "exc", exc |-> e, msg |-> m]
IsOk(r) == r.k = "ok"
Raises(r, e) == r.k = "exc" /\ r.exc = e

-----------------------------------------------------------------------------
(* str helpers: len, strip, lstrip('#'), startswith, slicing *)

Whitespace == {" ", "\t", "\n", "\r", "\f"}

\* s.lstrip(drop) and s.rstrip(drop): from the first, to the last, character
\* that is not in drop
LStrip(s, drop) ==
    LET keep == {j \in 1..Len(s) : s[j] \notin drop}
    IN  IF keep = {} THEN <<>>
        ELSE SubSeq(s, CHOOSE j \in keep : \A m \in keep : j <= m, Len(s))

RStrip(s, drop) ==
    LET keep == {j \in 1..Len(s) : s[j] \notin drop}
    IN  IF keep = {} THEN <<>>
        ELSE SubSeq(s, 1, CHOOSE j \in keep : \A m \in keep : j >= m)

\* str.strip(): leading and trailing whitespace removed
Strip(s) == RStrip(LStrip(s, Whitespace), Whitespace)

StartsWith(s, c) == s # <<>> /\ s[1] = c

\* s[i:j] with 0-based Python indices, clipped to the string
Slice(s, i, j) ==
    LET hi == IF j > Len(s) THEN Len(s) ELSE j
    IN  IF i >= hi THEN <<>> ELSE SubSeq(s, i + 1, hi)

\* c * n
Rep(c, n) == [j \in 1..n |-> c]

-----------------------------------------------------------------------------
(* int(str, base): the builtin's grammar.  Surrounding whitespace is       *)
(* stripped, one sign is allowed, base 16 allows a 0x/0X prefix, digits    *)
(* may be separated by single underscores (one may follow the prefix).     *)

DigitChars ==
    {"0", "1", "2", "3", "4", "5", "6", "7", "8", "9",
     "a", "b", "c", "d", "e", "f", "A", "B", "C", "D", "E", "F"}

DigitVal(c) ==
    CASE c = "0" -> 0 [] c = "1" -> 1 [] c = "2" -> 2 [] c = "3" -> 3
      [] c = "4" -> 4 [] c = "5" -> 5 [] c = "6" -> 6 [] c = "7" -> 7
      [] c = "8" -> 8 [] c = "9" -> 9
      [] c \in {"a", "A"} -> 10 [] c \in {"b", "B"} -> 11
      [] c \in {"c", "C"} -> 12 [] c \in {"d", "D"} -> 13
      [] c \in {"e", "E"} -> 14 [] c \in {"f", "F"} -> 15

IsDigit(c, base) == c \in DigitChars /\ DigitVal(c) < base

\* digits with single underscores between them, never first or last
DigitsOk(s, base) ==
    /\ s # <<>>
    /\ \A i \in 1..Len(s) : s[i] = "_" \/ IsDigit(s[i], base)
    /\ s[1] # "_"
    /\ s[Len(s)] # "_"
    /\ \A i \in 1..(Len(s) - 1) : ~(s[i] = "_" /\ s[i + 1] = "_")

RECURSIVE DigitsValue(_, _, _)
DigitsValue(s, base, acc) ==
    IF s = <<>> THEN acc
    ELSE IF Head(s) = "_" THEN DigitsValue(Tail(s), base, acc)
    ELSE DigitsValue(Tail(s), base, acc * base + DigitVal(Head(s)))

\* the digits after sign and prefix
PyIntDigits(w, neg, base) ==
    IF DigitsOk(w, base)
    THEN Ok(IF neg THEN 0 - DigitsValue(w, base, 0) ELSE DigitsValue(w, base, 0))
    ELSE Exc("ValueError", "invalid literal for int()")

\* after the prefix, when there is one, one underscore may come first
PyIntBody(v, pre, neg, base) ==
    PyIntDigits(IF pre /\ StartsWith(v, "_") THEN Tail(v) ELSE v, neg, base)

PyIntPrefixed(u, pre, neg, base) ==
    PyIntBody(IF pre THEN Tail(Tail(u)) ELSE u, pre, neg, base)

\* base 16 allows 0x or 0X after the sign
PyIntUnsigned(u, neg, base) ==
    PyIntPrefixed(u, base = 16 /\ Len(u) >= 2 /\ u[1] = "0" /\ u[2] \in {"x", "X"},
                  neg, base)

PyIntSigned(t, base) ==
    PyIntUnsigned(IF StartsWith(t, "-") \/ StartsWith(t, "+") THEN Tail(t) ELSE t,
                  StartsWith(t, "-"), base)

PyIntStr(s, base) == PyIntSigned(Strip(s), base)

\* int(x) for a Python value: floats truncate toward zero
PyInt(x) ==
    CASE x.t = "int" -> Ok(x.i)
      [] x.t = "str" -> PyIntStr(x.s, 10)
      [] x.t = "float" ->
            Ok(IF x.q >= 0 THEN x.q \div 4 ELSE 0 - ((0 - x.q) \div 4))
      [] x.t = "inf" -> Exc("OverflowError", "cannot convert float infinity to integer")
      [] x.t = "nan" -> Exc("ValueError", "cannot convert float NaN to integer")
      [] OTHER -> Exc("TypeError", "int() argument must be a string or a number")

-----------------------------------------------------------------------------
(* float(x).  Of the builtin's grammar the model covers sign, digits,      *)
(* optional point and fraction digits, "nan" and "inf" (no exponent, no    *)
(* underscore); the inputs used are whole quarters, which floats hold      *)
(* exactly.                                                                *)

RECURSIVE Pow10(_)
Pow10(n) == IF n <= 0 THEN 1 ELSE 10 * Pow10(n - 1)

IsDecDigits(s) == \A i \in 1..Len(s) : IsDigit(s[i], 10)

PointAt(s) ==
    IF \E i \in 1..Len(s) : s[i] = "."
    THEN CHOOSE i \in 1..Len(s) : s[i] = "." /\ \A j \in 1..(i - 1) : s[j] # "."
    ELSE 0

PyFloatStr(s) ==
    LET t == Strip(s)
        neg == StartsWith(t, "-")
        u == IF StartsWith(t, "-") \/ StartsWith(t, "+") THEN Tail(t) ELSE t
        p == PointAt(u)
        ip == IF p = 0 THEN u ELSE SubSeq(u, 1, p - 1)
        fp == IF p = 0 THEN <<>> ELSE SubSeq(u, p + 1, Len(u))
        num == DigitsValue(ip, 10, 0) * Pow10(Len(fp)) + DigitsValue(fp, 10, 0)
        q4 == (4 * num) \div Pow10(Len(fp))
    IN  IF u \in {<<"n", "a", "n">>} THEN Ok(PNaN)
        ELSE IF u \in {<<"i", "n", "f">>} THEN Ok(PInf)
        ELSE IF IsDecDigits(ip) /\ IsDecDigits(fp) /\ Len(ip) + Len(fp) > 0
        THEN Ok(PFloat(IF neg THEN 0 - q4 ELSE q4))
        ELSE Exc("ValueError", "could not convert string to float")

PyFloat(x) ==
    CASE x.t = "int" -> Ok(PFloat(4 * x.i))
      [] x.t = "float" -> Ok(x)
      [] x.t \in {"inf", "nan"} -> Ok(x)
      [] x.t = "str" -> PyFloatStr(x.s)
      [] OTHER -> Exc("TypeError", "float() argument must be a string or a number")

-----------------------------------------------------------------------------
(* The validators, image_generator.py lines 7-60 and 137-144 *)

TextLimit == 100
FontSizeMin == 8
FontSizeMax == 72
ColorLen == 7
ShadowBlurMax == 20
ShadowBlurDefault == 5
OutlineSizeMax == 5
OutlineSizeDefault == 1
LineHeightMinQ == 4
LineHeightMaxQ == 10
LineHeightDefaultQ == 6
Black == <<"#", "0", "0", "0", "0", "0", "0">>

\* bool(x) is False: the `not text` test
Falsy(x) ==
    CASE x.t = "none" -> TRUE
      [] x.t = "str" -> x.s = <<>>
      [] x.t = "int" -> x.i = 0
      [] x.t = "float" -> x.q = 0
      [] OTHER -> FALSE

validate_text_input(text) ==
    IF Falsy(text) THEN Exc("ValueError", "text_required")
    ELSE IF text.t # "str" THEN Exc("AttributeError", "no attribute strip")
    ELSE IF Strip(text.s) = <<>> THEN Exc("ValueError", "text_required")
    ELSE IF Len(text.s) > TextLimit THEN Exc("ValueError", "text_too_long")
    ELSE Ok(PStr(Strip(text.s)))

\* the range error raised inside the try is caught by the same except clause
validate_font_size(size) ==
    LET r == PyInt(size)
    IN  IF IsOk(r)
        THEN IF FontSizeMin <= r.v /\ r.v <= FontSizeMax
             THEN Ok(PInt(r.v))
             ELSE Exc("ValueError", "invalid_font_size")
        ELSE IF r.exc \in {"TypeError", "ValueError"}
             THEN Exc("ValueError", "invalid_font_size")
             ELSE r

\* a variant that hands back the six digits without the '#'
validate_color_bare(color) ==
    IF color.t # "str" \/ ~StartsWith(color.s, "#") \/ Len(color.s) # ColorLen
    THEN Exc("ValueError", "invalid_color")
    ELSE IF IsOk(PyIntStr(Tail(color.s), 16))
         THEN Ok(PStr(Tail(color.s)))
         ELSE Exc("ValueError", "invalid_color")

validate_color(color) ==
    IF color.t # "str" \/ ~StartsWith(color.s, "#") \/ Len(color.s) # ColorLen
    THEN Exc("ValueError", "invalid_color")
    ELSE IF IsOk(PyIntStr(Tail(color.s), 16))
         THEN Ok(color)
         ELSE Exc("ValueError", "invalid_color")

\* the tuple of the three components, or the first int() error
RgbTuple(r, g, b) ==
    IF ~IsOk(r) THEN r
    ELSE IF ~IsOk(g) THEN g
    ELSE IF ~IsOk(b) THEN b
    ELSE Ok(<<r.v, g.v, b.v>>)

\* hex_color.lstrip('#'), then int(hex_color[i:i+2], 16) for i in (0, 2, 4)
hex_to_rgb(hex_color) ==
    RgbTuple(PyIntStr(Slice(LStrip(hex_color, {"#"}), 0, 2), 16),
             PyIntStr(Slice(LStrip(hex_color, {"#"}), 2, 4), 16),
             PyIntStr(Slice(LStrip(hex_color, {"#"}), 4, 6), 16))

-----------------------------------------------------------------------------
(* sanitize_text of the front-end, app_old.py lines 426-442: the text is   *)
(* trimmed and HTML-escaped, the length cap applies to the escaped text,   *)
(* then every character below ' ' other than newline and tab is dropped.   *)

SanitizeLimit == 100

\* html.escape(s) with quote=True, one character at a time
Entity(c) ==
    CASE c = "&" -> <<"&", "a", "m", "p", ";">>
      [] c = "<" -> <<"&", "l", "t", ";">>
      [] c = ">" -> <<"&", "g", "t", ";">>
      [] c = "\"" -> <<"&", "q", "u", "o", "t", ";">>
      [] c = "'" -> <<"&", "#", "x", "2", "7", ";">>
      [] OTHER -> <<c>>

RECURSIVE HtmlEscape(_)
HtmlEscape(s) == IF s = <<>> THEN <<>> ELSE Entity(Head(s)) \o HtmlEscape(Tail(s))

\* the characters below U+0020 a TLA+ string can hold, newline and tab aside
ControlChars == {"\r", "\f"}

\* char >= ' ' or char in '\n\t'
Printable(c) == c \notin ControlChars

sanitize_text(text) ==
    IF Falsy(text) \/ text.t # "str" THEN Exc("ValueError", "text_required")
    ELSE IF Len(HtmlEscape(Strip(text.s))) > SanitizeLimit
         THEN Exc("ValueError", "text_too_long")
         ELSE Ok(PStr(SelectSeq(HtmlEscape(Strip(text.s)), Printable)))

-----------------------------------------------------------------------------

\* a variant that clamps to the nearest bound instead of the default
EffectSize_clamping(x, hi, dflt) ==
    IF x.t # "int" THEN Exc("TypeError", "'<' not supported")
    ELSE IF x.i < 0 THEN Ok(PInt(0))
    ELSE IF x.i > hi THEN Ok(PInt(hi))
    ELSE Ok(x)

\* `x < lo or x > hi` on an effect size: an int compares, a str or None
\* raises TypeError
EffectSize(x, hi, dflt) ==
    IF x.t # "int" THEN Exc("TypeError", "'<' not supported")
    ELSE IF x.i < 0 \/ x.i > hi THEN Ok(PInt(dflt))
    ELSE Ok(x)

\* `not c.startswith('#') or len(c) != 7` on an effect color
EffectColor(c) ==
    IF c.t # "str" THEN Exc("AttributeError", "no attribute startswith")
    ELSE IF ~StartsWith(c.s, "#") \/ Len(c.s) # ColorLen THEN Ok(PStr(Black))
    ELSE Ok(c)

validate_shadow(shadow_enabled, shadow_blur, shadow_color) ==
    LET b == EffectSize(shadow_blur, ShadowBlurMax, ShadowBlurDefault)
        c == EffectColor(shadow_color)
    IN  IF ~IsOk(b) THEN b
        ELSE IF ~IsOk(c) THEN c
        ELSE Ok(<<shadow_enabled, b.v, c.v>>)

validate_outline(outline_enabled, outline_size, outline_color) ==
    LET b == EffectSize(outline_size, OutlineSizeMax, OutlineSizeDefault)
        c == EffectColor(outline_color)
    IN  IF ~IsOk(b) THEN b
        ELSE IF ~IsOk(c) THEN c
        ELSE Ok(<<outline_enabled, b.v, c.v>>)

validate_gradient(gradient_enabled, gradient_color) ==
    LET c == EffectColor(gradient_color)
    IN  IF ~IsOk(c) THEN c ELSE Ok(<<gradient_enabled, c.v>>)

\* lines 137-144: float(line_height), 1.0 <= line_height <= 2.5, else 1.5
check_line_height(line_height) ==
    LET r == PyFloat(line_height)
    IN  IF IsOk(r) /\ r.v.t = "float"
           /\ LineHeightMinQ <= r.v.q /\ r.v.q <= LineHeightMaxQ
        THEN r.v
        ELSE PFloat(LineHeightDefaultQ)

-----------------------------------------------------------------------------
(* Python floats for apply_gradient (lines 111-113): IEEE-754 doubles with *)
(* 53 significant bits, rounded to nearest, ties to even.  A double is its *)
(* significand, 53 bits from the most significant one, and the exponent of *)
(* its last bit; zero has no bits.  Integers too large for the checker are *)
(* held as bit sequences, most significant bit first.                      *)

DoubleBits == 53

Zeros(n) == [j \in 1..n |-> 0]

PadLeft(b, n) == Zeros(n - Len(b)) \o b

\* b without its leading zeros
TrimBits(b) ==
    IF \A j \in 1..Len(b) : b[j] = 0 THEN <<>>
    ELSE SubSeq(b, CHOOSE j \in 1..Len(b) : b[j] = 1 /\ \A m \in 1..(j - 1) : b[m] = 0,
                Len(b))

RECURSIVE NatBits(_)
NatBits(n) == IF n = 0 THEN <<>> ELSE Append(NatBits(n \div 2), n % 2)

RECURSIVE BitsNat(_)
BitsNat(b) ==
    IF b = <<>> THEN 0 ELSE 2 * BitsNat(SubSeq(b, 1, Len(b) - 1)) + b[Len(b)]

\* Arithmetic goes eight bits at a time, on base-256 digits.
ToBytes(b) ==
    [i \in 1..((Len(b) + 7) \div 8) |->
        BitsNat(SubSeq(PadLeft(b, 8 * ((Len(b) + 7) \div 8)), 8 * i - 7, 8 * i))]

ToBits(d) ==
    [j \in 1..(8 * Len(d)) |-> (d[(j - 1) \div 8 + 1] \div (2 ^ (7 - ((j - 1) % 8)))) % 2]

\* a * d + carry
RECURSIVE MulBytes(_, _, _)
MulBytes(a, d, carry) ==
    IF a = <<>> THEN <<carry \div 256, carry % 256>>
    ELSE Append(MulBytes(SubSeq(a, 1, Len(a) - 1), d, (a[Len(a)] * d + carry) \div 256),
                (a[Len(a)] * d + carry) % 256)

\* a + b + carry, a and b of the same length
RECURSIVE AddBytes(_, _, _)
AddBytes(a, b, carry) ==
    IF a = <<>> THEN <<carry>>
    ELSE Append(AddBytes(SubSeq(a, 1, Len(a) - 1), SubSeq(b, 1, Len(b) - 1),
                         (a[Len(a)] + b[Len(b)] + carry) \div 256),
                (a[Len(a)] + b[Len(b)] + carry) % 256)

\* a - b - borrow, a and b of the same length, a >= b
RECURSIVE SubBytes(_, _, _)
SubBytes(a, b, borrow) ==
    IF a = <<>> THEN <<>>
    ELSE Append(SubBytes(SubSeq(a, 1, Len(a) - 1), SubSeq(b, 1, Len(b) - 1),
                         IF a[Len(a)] - b[Len(b)] - borrow < 0 THEN 1 ELSE 0),
                (a[Len(a)] - b[Len(b)] - borrow + 256) % 256)

\* b * d for bits b and an int d >= 0
MulBits(b, d) == ToBits(MulBytes(ToBytes(b), d, 0))

Longer(a, b) == IF Len(a) >= Len(b) THEN Len(a) ELSE Len(b)

\* a >= b for bits of the same length
GeqPadded(a, b) ==
    \/ a = b
    \/ \E j \in 1..Len(a) : a[j] > b[j] /\ \A m \in 1..(j - 1) : a[m] = b[m]

GeqBits(a, b) == GeqPadded(PadLeft(a, Longer(a, b)), PadLeft(b, Longer(a, b)))

\* a + b for integers as bits
AddBits(a, b) ==
    ToBits(AddBytes(ToBytes(PadLeft(a, Longer(a, b))), ToBytes(PadLeft(b, Longer(a, b))), 0))

\* a - b for integers as bits, a >= b
SubBits(a, b) ==
    ToBits(SubBytes(ToBytes(PadLeft(a, Longer(a, b))), ToBytes(PadLeft(b, Longer(a, b))), 0))

\* b + 1: the ones at the end become zeros, the zero before them a one
PlusOneAt(b, z) ==
    [j \in 1..Len(b) |-> IF j < z THEN b[j] ELSE IF j = z THEN 1 ELSE 0]

PlusOne(b) ==
    IF \A j \in 1..Len(b) : b[j] = 1 THEN <<1>> \o Zeros(Len(b))
    ELSE PlusOneAt(b, CHOOSE j \in 1..Len(b) :
                          b[j] = 0 /\ \A m \in (j + 1)..Len(b) : b[m] = 1)

\* the magnitude of a double; WithSign adds its sign (zero comes out as +0.0
\* wherever a sum cancels)
DoubleZero == [m |-> <<>>, e |-> 0]

WithSign(f, negative) == [m |-> f.m, e |-> f.e, neg |-> negative /\ f.m # <<>>]

Abs(n) == IF n < 0 THEN 0 - n ELSE n

\* the 53 bits kept, plus one when the bits dropped are more than half of
\* the last place, or half of it and the last bit kept is odd
RoundedUp(b, sticky) ==
    IF b[DoubleBits + 1] = 1
       /\ (sticky \/ b[DoubleBits] = 1 \/ \E j \in (DoubleBits + 2)..Len(b) : b[j] = 1)
    THEN PlusOne(SubSeq(b, 1, DoubleBits))
    ELSE SubSeq(b, 1, DoubleBits)

\* a carry out of the 53 bits moves the exponent up by one
Renormal(m, e) ==
    IF Len(m) > DoubleBits THEN [m |-> SubSeq(m, 1, DoubleBits), e |-> e + 1]
    ELSE [m |-> m, e |-> e]

\* the double nearest to b * 2^e, b without leading zeros; sticky tells
\* that a nonzero tail lies below the last bit of b
RoundTrimmed(b, e, sticky) ==
    IF b = <<>> THEN DoubleZero
    ELSE IF Len(b) <= DoubleBits
    THEN [m |-> b \o Zeros(DoubleBits - Len(b)), e |-> e - (DoubleBits - Len(b))]
    ELSE Renormal(RoundedUp(b, sticky), e + Len(b) - DoubleBits)

RoundToDouble(b, e, sticky) == RoundTrimmed(TrimBits(b), e, sticky)

\* long division of r / h, r < h: the next n base-256 digits of the quotient
RECURSIVE FracBytes(_, _, _)
FracBytes(r, h, n) ==
    IF n = 0 THEN <<>>
    ELSE <<(256 * r) \div h>> \o FracBytes((256 * r) % h, h, n - 1)

\* and the remainder left after them
RECURSIVE FracRem(_, _, _)
FracRem(r, h, n) ==
    IF n = 0 \/ r = 0 THEN r ELSE FracRem((256 * r) % h, h, n - 1)

\* the number of zero bits of r / h before its first one bit, 0 < r < h
RECURSIVE LeadingZeros(_, _)
LeadingZeros(r, h) == IF 2 * r >= h THEN 0 ELSE 1 + LeadingZeros(2 * r, h)

\* r doubled that many times
RECURSIVE Shifted(_, _)
Shifted(r, h) == IF 2 * r >= h THEN r ELSE Shifted(2 * r, h)

\* the quotient digits worked out: 56 bits, enough for 53 and the rounding
QuotientBytes == (DoubleBits + 3) \div 8

\* y / h for ints 0 <= y < h: the quotient bits from the first one bit on,
\* rounded with the remainder as the tail
DoubleDiv(y, h) ==
    IF y = 0 THEN DoubleZero
    ELSE RoundToDouble(ToBits(FracBytes(Shifted(y, h), h, QuotientBytes)),
                       0 - (LeadingZeros(y, h) + 8 * QuotientBytes),
                       FracRem(Shifted(y, h), h, QuotientBytes) # 0)

\* d * f for an int d and a double f >= 0
DoubleMul(d, f) ==
    IF d = 0 \/ f.m = <<>> THEN WithSign(DoubleZero, FALSE)
    ELSE WithSign(RoundToDouble(MulBits(f.m, Abs(d)), f.e, FALSE), d < 0)

\* the sum of two magnitudes a * 2^e and b * 2^e with their signs
SignedSum(a, aneg, b, bneg, e) ==
    IF aneg = bneg THEN WithSign(RoundToDouble(AddBits(a, b), e, FALSE), aneg)
    ELSE IF GeqBits(a, b) THEN WithSign(RoundToDouble(SubBits(a, b), e, FALSE), aneg)
    ELSE WithSign(RoundToDouble(SubBits(b, a), e, FALSE), bneg)

\* n + f for an int n and a double f with f.e <= 0
DoubleAdd(n, f) ==
    IF f.m = <<>> THEN WithSign(RoundToDouble(NatBits(Abs(n)), 0, FALSE), n < 0)
    ELSE SignedSum(NatBits(Abs(n)) \o Zeros(0 - f.e), n < 0, f.m, f.neg, f.e)

\* the whole part of a double's magnitude
DoubleFloor(f) ==
    IF f.m = <<>> \/ DoubleBits + f.e <= 0 THEN 0
    ELSE IF f.e >= 0 THEN BitsNat(f.m \o Zeros(f.e))
    ELSE BitsNat(SubSeq(f.m, 1, DoubleBits + f.e))

\* int(f): towards zero
DoubleTrunc(f) == IF f.neg THEN 0 - DoubleFloor(f) ELSE DoubleFloor(f)

\* line 113: int(start_rgb[i] + (end_rgb[i] - start_rgb[i]) * ratio) with
\* ratio = y / img.size[1] (line 112)
GradientChannel(start, end, y, height) ==
    DoubleTrunc(DoubleAdd(start, DoubleMul(end - start, DoubleDiv(y, height))))

\* the colors of the rows 0..height-1 (rows[y + 1] is row y)
GradientRows(start_rgb, end_rgb, height) ==
    [r \in 1..height |->
        [i \in 1..3 |-> GradientChannel(start_rgb[i], end_rgb[i], r - 1, height)]]

\* lines 105-114 of apply_gradient for a canvas of the given height
gradient_rows(color, gradient_color, height) ==
    IF ~IsOk(hex_to_rgb(color)) THEN hex_to_rgb(color)
    ELSE IF ~IsOk(hex_to_rgb(gradient_color)) THEN hex_to_rgb(gradient_color)
    ELSE Ok(GradientRows(hex_to_rgb(color).v, hex_to_rgb(gradient_color).v, height))

-----------------------------------------------------------------------------
(* State *)

VARIABLES
    pc,      \* position in generate_transparent_text
    args,    \* the arguments of the call, as passed
    env,     \* the environment of the call: font files, glyph metrics, disk
    loc,     \* the local variables of generate_transparent_text
    heap,    \* every PIL image allocated during the call, by allocation order
    saved,   \* the image written to output_path, or NoFile
    result,  \* Pending, then Ok(PNone) or the exception that left the call
    vcall,   \* a direct call of one validator: its name and arguments
    vret,    \* the outcome of that call
    prev     \* the outcome of an earlier call with the same arguments, or NoRun

vars == <<pc, args, env, loc, heap, saved, result, vcall, vret, prev>>

Pending == [k |-> "pending"]
NoFile == [k |-> "nofile"]
NoCall == [fn |-> "none"]
NoRun == [k |-> "none"]

-----------------------------------------------------------------------------
(* load_font, lines 62-84.  env.fs tells what the filesystem and the font  *)
(* library answer: isfile = os.path.isfile(font_name), custom_loads =      *)
(* ImageFont.truetype(font_name, ..) returns, default_exists and           *)
(* default_loads the same for the bundled Noto Sans CJK path.  Any         *)
(* exception inside the try (os.path.isfile on a non-str included) ends in *)
(* ImageFont.load_default().  `tried` lists the sources in the order used, *)
(* `out` is what the call returns or raises.                               *)

Font(src, size) == [t |-> "font", src |-> src, size |-> size]

Loaded(src, size, tried) == [out |-> Ok(Font(src, size)), tried |-> tried]

\* a variant that raises when the font path is not a file
load_font_strict(font_name, font_size, fs) ==
    IF font_name.t # "str"
    THEN Loaded("builtin", 0, <<"builtin">>)
    ELSE IF fs.isfile
    THEN IF fs.custom_loads
         THEN Loaded("custom", font_size, <<"custom">>)
         ELSE Loaded("builtin", 0, <<"custom", "builtin">>)
    ELSE [out |-> Exc("FileNotFoundError", "font not found"), tried |-> <<"custom">>]

\* a variant without the try/except: a failing truetype() propagates
load_font_uncaught(font_name, font_size, fs) ==
    IF font_name.t # "str"
    THEN [out |-> Exc("TypeError", "stat: path should be string"), tried |-> <<>>]
    ELSE IF fs.isfile
    THEN IF fs.custom_loads
         THEN Loaded("custom", font_size, <<"custom">>)
         ELSE [out |-> Exc("OSError", "cannot open resource"), tried |-> <<"custom">>]
    ELSE IF fs.default_exists
    THEN IF fs.default_loads
         THEN Loaded("default", font_size, <<"default">>)
         ELSE [out |-> Exc("OSError", "cannot open resource"), tried |-> <<"default">>]
    ELSE Loaded("builtin", 0, <<"builtin">>)

load_font(font_name, font_size, fs) ==
    IF font_name.t # "str"
    THEN Loaded("builtin", 0, <<"builtin">>)
    ELSE IF fs.isfile
    THEN IF fs.custom_loads
         THEN Loaded("custom", font_size, <<"custom">>)
         ELSE Loaded("builtin", 0, <<"custom", "builtin">>)
    ELSE IF fs.default_exists
    THEN IF fs.default_loads
         THEN Loaded("default", font_size, <<"default">>)
         ELSE Loaded("builtin", 0, <<"default", "builtin">>)
    ELSE Loaded("builtin", 0, <<"builtin">>)

-----------------------------------------------------------------------------
(* Images.  An image is its mode, its size, the layers drawn or composited *)
(* onto it from bottom to top, and whether close() was called.  A layer is *)
(* what was drawn (glyph coverage in a mask; shadow, outline, fill or      *)
(* gradient on a canvas), the line it was drawn for, the set of lines      *)
(* whose glyphs the mask covered (shadow, gradient) and the number of      *)
(* draw.text stamps (outline).                                             *)

Image(mode, w, h) ==
    [mode |-> mode, w |-> w, h |-> h, layers |-> <<>>, closed |-> FALSE]

Layer(kind, line, cover, n) ==
    [kind |-> kind, line |-> line, cover |-> cover, n |-> n]

Draw(h, ref, layer) == [h EXCEPT ![ref].layers = Append(@, layer)]

Cover(im) == {im.layers[j].line : j \in 1..Len(im.layers)}

\* PIL's ImageColor.getrgb on a validated 7-character '#...' string, as
\* draw.text(fill=...) calls it: '#' and six hex digits, or ValueError
PILColorOk(c) ==
    /\ Len(c) = ColorLen
    /\ c[1] = "#"
    /\ \A j \in 2..ColorLen : IsDigit(c[j], 16)

\* text.split('\n'), then line.strip() for each line (line 158)
Lines(text) ==
    LET nl == {j \in 1..Len(text) : text[j] = "\n"}
        \* the position of the k-th newline; 0 before the first line and
        \* Len(text) + 1 after the last
        cut(k) == IF k = 0 THEN 0
                  ELSE IF k > Cardinality(nl) THEN Len(text) + 1
                  ELSE CHOOSE j \in nl : Cardinality({m \in nl : m < j}) = k - 1
    IN  [k \in 1..(Cardinality(nl) + 1) |->
            Strip(SubSeq(text, cut(k - 1) + 1, cut(k) - 1))]

\* the offsets apply_outline stamps the text at (lines 97-101)
OutlineOffsets(outline_size) ==
    {o \in (0 - outline_size..outline_size) \X (0 - outline_size..outline_size) :
        ~(o[1] = 0 /\ o[2] = 0)}

Max(a, b) == IF a >= b THEN a ELSE b

ScaleFactor == 4
BasePadding == 20

-----------------------------------------------------------------------------
(* generate_transparent_text, lines 119-230, one action per statement      *)
(* group.  The parameters are the first locals; temp_img, img and          *)
(* text_mask start as None (reference 0).                                  *)

InitLoc(a) ==
    [text |-> a.text, font_size |-> a.font_size, color |-> a.color,
     font_name |-> a.font_name, line_height |-> a.line_height,
     shadow_enabled |-> a.shadow_enabled, shadow_blur |-> a.shadow_blur,
     shadow_color |-> a.shadow_color,
     outline_enabled |-> a.outline_enabled, outline_size |-> a.outline_size,
     outline_color |-> a.outline_color,
     gradient_enabled |-> a.gradient_enabled, gradient_color |-> a.gradient_color,
     temp_img |-> 0, img |-> 0, text_mask |-> 0, draw |-> 0, mask_draw |-> 0,
     font |-> PNone, scaled_font |-> PNone, font_calls |-> <<>>, font_uses |-> {},
     lines |-> <<>>, line_sizes |-> <<>>,
     total_width |-> 0, total_height_q |-> 0,
     padding |-> 0, shadow_padding |-> 0, outline_padding |-> 0,
     img_width |-> 0, img_height |-> 0,
     i |-> 0, x |-> 0, y |-> 0, final_width |-> 0, final_height |-> 0,
     exc |-> PNone, exc_at |-> "none"]

\* an exception raised inside the try block: control goes to `except`;
\* exc_at remembers the statement that raised
Throw(l, e) == [l EXCEPT !.exc = e, !.exc_at = pc]

\* line 130
ValidateText ==
    /\ pc = "validate_text"
    /\ LET r == validate_text_input(loc.text)
       IN  IF IsOk(r)
           THEN pc' = "validate_font_size" /\ loc' = [loc EXCEPT !.text = r.v]
           ELSE pc' = "except" /\ loc' = Throw(loc, r)
    /\ UNCHANGED <<args, env, heap, saved, result, vcall, vret, prev>>

\* line 131
ValidateFontSize ==
    /\ pc = "validate_font_size"
    /\ LET r == validate_font_size(loc.font_size)
       IN  IF IsOk(r)
           THEN pc' = "validate_color" /\ loc' = [loc EXCEPT !.font_size = r.v]
           ELSE pc' = "except" /\ loc' = Throw(loc, r)
    /\ UNCHANGED <<args, env, heap, saved, result, vcall, vret, prev>>

\* line 132
ValidateColor ==
    /\ pc = "validate_color"
    /\ LET r == validate_color(loc.color)
       IN  IF IsOk(r)
           THEN pc' = "validate_shadow" /\ loc' = [loc EXCEPT !.color = r.v]
           ELSE pc' = "except" /\ loc' = Throw(loc, r)
    /\ UNCHANGED <<args, env, heap, saved, result, vcall, vret, prev>>

\* line 133
ValidateShadow ==
    /\ pc = "validate_shadow"
    /\ LET r == validate_shadow(loc.shadow_enabled, loc.shadow_blur, loc.shadow_color)
       IN  IF IsOk(r)
           THEN /\ pc' = "validate_outline"
                /\ loc' = [loc EXCEPT !.shadow_enabled = r.v[1],
                                      !.shadow_blur = r.v[2],
                                      !.shadow_color = r.v[3]]
           ELSE pc' = "except" /\ loc' = Throw(loc, r)
    /\ UNCHANGED <<args, env, heap, saved, result, vcall, vret, prev>>

\* line 134
ValidateOutline ==
    /\ pc = "validate_outline"
    /\ LET r == validate_outline(loc.outline_enabled, loc.outline_size, loc.outline_color)
       IN  IF IsOk(r)
           THEN /\ pc' = "validate_gradient"
                /\ loc' = [loc EXCEPT !.outline_enabled = r.v[1],
                                      !.outline_size = r.v[2],
                                      !.outline_color = r.v[3]]
           ELSE pc' = "except" /\ loc' = Throw(loc, r)
    /\ UNCHANGED <<args, env, heap, saved, result, vcall, vret, prev>>

\* line 135
ValidateGradient ==
    /\ pc = "validate_gradient"
    /\ LET r == validate_gradient(loc.gradient_enabled, loc.gradient_color)
       IN  IF IsOk(r)
           THEN /\ pc' = "line_height"
                /\ loc' = [loc EXCEPT !.gradient_enabled = r.v[1],
                                      !.gradient_color = r.v[2]]
           ELSE pc' = "except" /\ loc' = Throw(loc, r)
    /\ UNCHANGED <<args, env, heap, saved, result, vcall, vret, prev>>

\* lines 137-144
CheckLineHeight ==
    /\ pc = "line_height"
    /\ pc' = "load_font"
    /\ loc' = [loc EXCEPT !.line_height = check_line_height(loc.line_height)]
    /\ UNCHANGED <<args, env, heap, saved, result, vcall, vret, prev>>

\* line 147
LoadFont ==
    /\ pc = "load_font"
    /\ LET r == load_font(loc.font_name, loc.font_size.i, env.fs)
           l == [loc EXCEPT !.font_calls = Append(@, [size |-> loc.font_size.i,
                                                      tried |-> r.tried])]
       IN  IF IsOk(r.out)
           THEN pc' = "load_scaled_font" /\ loc' = [l EXCEPT !.font = r.out.v]
           ELSE pc' = "except" /\ loc' = Throw(l, r.out)
    /\ UNCHANGED <<args, env, heap, saved, result, vcall, vret, prev>>

\* lines 150-152
LoadScaledFont ==
    /\ pc = "load_scaled_font"
    /\ LET scaled_font_size == loc.font_size.i * ScaleFactor
           r == load_font(loc.font_name, scaled_font_size, env.fs)
           l == [loc EXCEPT !.font_calls = Append(@, [size |-> scaled_font_size,
                                                      tried |-> r.tried])]
       IN  IF IsOk(r.out)
           THEN pc' = "temp_img" /\ loc' = [l EXCEPT !.scaled_font = r.out.v]
           ELSE pc' = "except" /\ loc' = Throw(l, r.out)
    /\ UNCHANGED <<args, env, heap, saved, result, vcall, vret, prev>>

\* lines 155-156
AllocTemp ==
    /\ pc = "temp_img"
    /\ pc' = "measure"
    /\ heap' = Append(heap, Image("RGBA", 1, 1))
    /\ loc' = [loc EXCEPT !.temp_img = Len(heap) + 1]
    /\ UNCHANGED <<args, env, saved, result, vcall, vret, prev>>

\* a variant that measures and draws with the handle of the nominal size
UsesFont_nominal(l) == [l EXCEPT !.font_uses = @ \cup {l.font}]

\* the font handle passed to textbbox and text (font=scaled_font, lines 164,
\* 190, 195, 201, 204, 207) is recorded in font_uses
UsesFont(l) == [l EXCEPT !.font_uses = @ \cup {l.scaled_font}]

\* textbbox((0, 0), line, font=scaled_font): (width, height) of the box
BBox(line) == env.bbox[line]

RECURSIVE SumHeightsQ(_, _)
SumHeightsQ(sizes, lh_q) ==
    IF sizes = <<>> THEN 0
    ELSE Head(sizes)[2] * lh_q + SumHeightsQ(Tail(sizes), lh_q)

RECURSIVE MaxWidth(_)
MaxWidth(sizes) ==
    IF sizes = <<>> THEN 0 ELSE Max(Head(sizes)[1], MaxWidth(Tail(sizes)))

\* lines 158-169: total_height is a float, held in quarters
Measure ==
    /\ pc = "measure"
    /\ pc' = "canvas_size"
    /\ LET lines == Lines(loc.text.s)
           line_sizes == [j \in 1..Len(lines) |-> BBox(lines[j])]
       IN  loc' = UsesFont([loc EXCEPT
                      !.lines = lines,
                      !.line_sizes = line_sizes,
                      !.total_width = MaxWidth(line_sizes),
                      !.total_height_q = SumHeightsQ(line_sizes, loc.line_height.q)])
    /\ UNCHANGED <<args, env, heap, saved, result, vcall, vret, prev>>

\* a variant that leaves the outline padding out of the canvas size
CanvasSize_without_outline ==
    /\ pc = "canvas_size"
    /\ pc' = "canvas"
    /\ LET padding == BasePadding * ScaleFactor
           shadow_padding == IF loc.shadow_enabled
                             THEN loc.shadow_blur.i * 2 * ScaleFactor ELSE 0
       IN  loc' = [loc EXCEPT
               !.padding = padding,
               !.shadow_padding = shadow_padding,
               !.outline_padding = 0,
               !.img_width = loc.total_width + (padding * 2) + shadow_padding,
               !.img_height = (loc.total_height_q
                               + 4 * ((padding * 2) + shadow_padding)) \div 4]
    /\ UNCHANGED <<args, env, heap, saved, result, vcall, vret, prev>>

\* lines 172-177: bool * int is the int or 0; int() truncates the float sum
CanvasSize ==
    /\ pc = "canvas_size"
    /\ pc' = "canvas"
    /\ LET padding == BasePadding * ScaleFactor
           shadow_padding == IF loc.shadow_enabled
                             THEN loc.shadow_blur.i * 2 * ScaleFactor ELSE 0
           outline_padding == IF loc.outline_enabled
                              THEN loc.outline_size.i * 2 * ScaleFactor ELSE 0
       IN  loc' = [loc EXCEPT
               !.padding = padding,
               !.shadow_padding = shadow_padding,
               !.outline_padding = outline_padding,
               !.img_width = loc.total_width + (padding * 2)
                             + shadow_padding + outline_padding,
               !.img_height = (loc.total_height_q
                               + 4 * ((padding * 2) + shadow_padding + outline_padding))
                              \div 4]
    /\ UNCHANGED <<args, env, heap, saved, result, vcall, vret, prev>>

\* lines 180-188
AllocCanvas ==
    /\ pc = "canvas"
    /\ pc' = "line"
    /\ heap' = heap \o <<Image("RGBA", loc.img_width, loc.img_height),
                          Image("L", loc.img_width, loc.img_height)>>
    /\ loc' = [loc EXCEPT !.img = Len(heap) + 1, !.draw = Len(heap) + 1,
                          !.text_mask = Len(heap) + 2, !.mask_draw = Len(heap) + 2,
                          !.i = 1,
                          !.y = loc.padding + (loc.shadow_padding \div 2)
                                + (loc.outline_padding \div 2)]
    /\ UNCHANGED <<args, env, saved, result, vcall, vret, prev>>

\* lines 189-192: the head of the loop body
LineBegin ==
    /\ pc = "line"
    /\ pc' = "shadow"
    /\ LET width == BBox(loc.lines[loc.i])[1]
       IN  loc' = UsesFont([loc EXCEPT !.x = (loc.img_width - width) \div 2])
    /\ UNCHANGED <<args, env, heap, saved, result, vcall, vret, prev>>

\* lines 194-198 with apply_shadow (86-92).  The line is drawn into the
\* mask; apply_shadow allocates `shadow`, converts the color (which may
\* raise), pastes the color through the mask, blurs into a second image and
\* returns alpha_composite(img, shadow): a NEW image, the shadow over the
\* content of img.  img is rebound to it; draw stays bound to the old image.
\* Then a new mask replaces text_mask.
Shadow ==
    /\ pc = "shadow"
    /\ IF ~loc.shadow_enabled
       THEN pc' = "outline" /\ UNCHANGED <<loc, heap>>
       ELSE LET h1 == Draw(heap, loc.mask_draw, Layer("glyph", loc.i, {}, 1))
                h2 == Append(h1, Image("RGBA", loc.img_width, loc.img_height))
                rgb == hex_to_rgb(loc.shadow_color.s)
                lay == Layer("shadow", loc.i, Cover(h1[loc.text_mask]), 1)
                shadow == [Image("RGBA", loc.img_width, loc.img_height)
                              EXCEPT !.layers = <<lay>>]
                out == [Image("RGBA", loc.img_width, loc.img_height)
                           EXCEPT !.layers = Append(h1[loc.img].layers, lay)]
                h3 == [h2 EXCEPT ![Len(h2)] = shadow] \o <<shadow, out>>
                h4 == Append(h3, Image("L", loc.img_width, loc.img_height))
            IN  IF IsOk(rgb)
                THEN /\ pc' = "outline"
                     /\ heap' = h4
                     /\ loc' = UsesFont([loc EXCEPT !.img = Len(h3),
                                                    !.text_mask = Len(h4),
                                                    !.mask_draw = Len(h4)])
                ELSE /\ pc' = "except"
                     /\ heap' = h2
                     /\ loc' = Throw(loc, rgb)
    /\ UNCHANGED <<args, env, saved, result, vcall, vret, prev>>

\* lines 200-201 with apply_outline (94-101), called with
\* outline_size * scale_factor: one draw.text per offset, on the image
\* `draw` is bound to.  The first stamp parses outline_color.
Outline ==
    /\ pc = "outline"
    /\ IF ~loc.outline_enabled
       THEN pc' = "fill" /\ UNCHANGED <<loc, heap>>
       ELSE LET stamps == Cardinality(OutlineOffsets(loc.outline_size.i * ScaleFactor))
            IN  IF stamps = 0
                THEN pc' = "fill" /\ UNCHANGED <<loc, heap>>
                ELSE IF PILColorOk(loc.outline_color.s)
                THEN /\ pc' = "fill"
                     /\ heap' = Draw(heap, loc.draw, Layer("outline", loc.i, {}, stamps))
                     /\ loc' = UsesFont(loc)
                ELSE /\ pc' = "except"
                     /\ heap' = heap
                     /\ loc' = Throw(loc, Exc("ValueError", "unknown color specifier"))
    /\ UNCHANGED <<args, env, saved, result, vcall, vret, prev>>

\* after line 209
\* a variant that rounds the advance up instead of truncating it
NextLine_rounding(l) ==
    [l EXCEPT !.y = l.y + ((l.line_sizes[l.i][2] * l.line_height.q + 3) \div 4),
              !.i = l.i + 1]

NextLine(l) ==
    [l EXCEPT !.y = l.y + ((l.line_sizes[l.i][2] * l.line_height.q) \div 4),
              !.i = l.i + 1]

AfterLine(l) == IF l.i >= Len(l.lines) THEN "resize" ELSE "line"

\* lines 203-209 with apply_gradient (103-117).  With the gradient the
\* line is drawn into the current mask and img is rebound to
\* alpha_composite(img, gradient), a NEW image; without it the text is
\* drawn on the image `draw` is bound to.  Then y advances.
Fill ==
    /\ pc = "fill"
    /\ IF loc.gradient_enabled
       THEN LET h1 == Draw(heap, loc.mask_draw, Layer("glyph", loc.i, {}, 1))
                start_rgb == hex_to_rgb(loc.color.s)
                end_rgb == hex_to_rgb(loc.gradient_color.s)
                lay == Layer("gradient", loc.i, Cover(h1[loc.text_mask]), 1)
                gradient == [Image("RGBA", loc.img_width, loc.img_height)
                                EXCEPT !.layers = <<lay>>]
                out == [Image("RGBA", loc.img_width, loc.img_height)
                           EXCEPT !.layers = Append(h1[loc.img].layers, lay)]
                h2 == h1 \o <<gradient, out>>
            IN  IF ~IsOk(start_rgb)
                THEN pc' = "except" /\ heap' = h1 /\ loc' = Throw(loc, start_rgb)
                ELSE IF ~IsOk(end_rgb)
                THEN pc' = "except" /\ heap' = h1 /\ loc' = Throw(loc, end_rgb)
                ELSE /\ pc' = AfterLine(loc)
                     /\ heap' = h2
                     /\ loc' = NextLine(UsesFont([loc EXCEPT !.img = Len(h2)]))
       ELSE IF PILColorOk(loc.color.s)
            THEN /\ pc' = AfterLine(loc)
                 /\ heap' = Draw(heap, loc.draw, Layer("fill", loc.i, {}, 1))
                 /\ loc' = NextLine(UsesFont(loc))
            ELSE /\ pc' = "except"
                 /\ heap' = heap
                 /\ loc' = Throw(loc, Exc("ValueError", "unknown color specifier"))
    /\ UNCHANGED <<args, env, saved, result, vcall, vret, prev>>

\* lines 212-214: resize returns a new image
Resize ==
    /\ pc = "resize"
    /\ pc' = "save"
    /\ LET final_width == loc.img_width \div ScaleFactor
           final_height == loc.img_height \div ScaleFactor
           out == [Image("RGBA", final_width, final_height)
                      EXCEPT !.layers = heap[loc.img].layers]
       IN  /\ heap' = Append(heap, out)
           /\ loc' = [loc EXCEPT !.final_width = final_width,
                                 !.final_height = final_height,
                                 !.img = Len(heap) + 1]
    /\ UNCHANGED <<args, env, saved, result, vcall, vret, prev>>

\* a variant that writes into the file whether an earlier call has run
Save_stamping ==
    /\ pc = "save"
    /\ IF env.save_ok
       THEN /\ pc' = "finally"
            /\ saved' = [k |-> "file", w |-> heap[loc.img].w, h |-> heap[loc.img].h,
                         layers |-> Append(heap[loc.img].layers,
                                           Layer("stamp", 0, {prev.k}, 1))]
            /\ loc' = loc
       ELSE /\ pc' = "except"
            /\ saved' = saved
            /\ loc' = Throw(loc, Exc("OSError", "cannot write file"))
    /\ UNCHANGED <<args, env, heap, result, vcall, vret, prev>>

\* lines 217-218: the write succeeds or raises OSError (env.save_ok)
Save ==
    /\ pc = "save"
    /\ IF env.save_ok
       THEN /\ pc' = "finally"
            /\ saved' = [k |-> "file", w |-> heap[loc.img].w, h |-> heap[loc.img].h,
                         layers |-> heap[loc.img].layers]
            /\ loc' = loc
       ELSE /\ pc' = "except"
            /\ saved' = saved
            /\ loc' = Throw(loc, Exc("OSError", "cannot write file"))
    /\ UNCHANGED <<args, env, heap, result, vcall, vret, prev>>

\* lines 220-222: log and re-raise
Except ==
    /\ pc = "except"
    /\ pc' = "finally"
    /\ UNCHANGED <<args, env, loc, heap, saved, result, vcall, vret, prev>>

Close(h, ref) == IF ref = 0 THEN h ELSE [h EXCEPT ![ref].closed = TRUE]

\* a variant whose cleanup returns normally whatever was raised
Finally_swallowing ==
    /\ pc = "finally"
    /\ pc' = "done"
    /\ heap' = Close(Close(Close(heap, loc.temp_img), loc.img), loc.text_mask)
    /\ result' = Ok(PNone)
    /\ UNCHANGED <<args, env, loc, saved, vcall, vret, prev>>

\* lines 223-230: close what temp_img, img and text_mask are bound to now
Finally ==
    /\ pc = "finally"
    /\ pc' = "done"
    /\ heap' = Close(Close(Close(heap, loc.temp_img), loc.img), loc.text_mask)
    /\ result' = IF loc.exc = PNone THEN Ok(PNone) ELSE loc.exc
    /\ UNCHANGED <<args, env, loc, saved, vcall, vret, prev>>

Render ==
    \/ ValidateText \/ ValidateFontSize \/ ValidateColor
    \/ ValidateShadow \/ ValidateOutline \/ ValidateGradient
    \/ CheckLineHeight \/ LoadFont \/ LoadScaledFont
    \/ AllocTemp \/ Measure \/ CanvasSize \/ AllocCanvas
    \/ LineBegin \/ Shadow \/ Outline \/ Fill
    \/ Resize \/ Save \/ Except \/ Finally

-----------------------------------------------------------------------------
(* The calls checked.  Each family varies some arguments and keeps the     *)
(* rest at the defaults of the signature (lines 119-122).                  *)

MaxGlyphW == 4
MaxGlyphH == 4
MaxPad == 2
MaxAffix == 2

Red == <<"#", "F", "F", "0", "0", "0", "0">>
Blue == <<"#", "0", "0", "0", "0", "f", "f">>
White == <<"#", "F", "F", "F", "F", "F", "F">>
NamedRed == <<"r", "e", "d">>
NonHex == <<"#", "g", "g", "g", "g", "g", "g">>
Signed == <<"#", "+", "1", "2", "3", "4", "5">>
Prefixed == <<"#", "0", "x", "1", "2", "3", "4">>
Short == <<"#", "1", "2", "3", "4", "5">>

NotoSansJP == <<"N", "o", "t", "o", " ", "S", "a", "n", "s", " ", "J", "P">>
CustomPath == <<"f", "o", "n", "t", "s", "/", "a", ".", "t", "t", "f">>

TwoLines == <<"a", "b", "\n", "c">>
GapLines == <<"a", "\n", "\n", "b">>

DefaultArgs ==
    [text |-> PStr(TwoLines), font_size |-> PInt(16), color |-> PStr(Black),
     font_name |-> PStr(NotoSansJP), line_height |-> PFloat(6),
     shadow_enabled |-> FALSE, shadow_blur |-> PInt(5), shadow_color |-> PStr(Black),
     outline_enabled |-> FALSE, outline_size |-> PInt(1), outline_color |-> PStr(Black),
     gradient_enabled |-> FALSE, gradient_color |-> PStr(Black)]

Range(f) == {f[j] : j \in DOMAIN f}

\* the lines a text is laid out in, when it passes validation
LineSet(text) == IF text.t = "str" THEN Range(Lines(Strip(text.s))) ELSE {}

\* glyph metrics: an empty line measures (0, 0)
Metrics(text) ==
    {m \in [LineSet(text) -> (0..MaxGlyphW) \X (0..MaxGlyphH)] :
        \A l \in LineSet(text) : l = <<>> => m[l] = <<0, 0>>}

PlainMetrics(text) ==
    [l \in LineSet(text) |-> IF l = <<>> THEN <<0, 0>> ELSE <<Len(l), MaxGlyphH>>]

DefaultFs ==
    [isfile |-> FALSE, custom_loads |-> FALSE,
     default_exists |-> TRUE, default_loads |-> TRUE]

FsStates ==
    [isfile : BOOLEAN, custom_loads : BOOLEAN,
     default_exists : BOOLEAN, default_loads : BOOLEAN]

DefaultEnv(text) == [fs |-> DefaultFs, save_ok |-> TRUE, bbox |-> PlainMetrics(text)]

Call(a) == [args |-> a, env |-> DefaultEnv(a.text)]

\* text, font_size and color
PrimaryTexts ==
    {PNone, PStr(<<>>), PStr(<<" ">>), PStr(<<"a">>), PStr(TwoLines),
     PStr(<<" ">> \o TwoLines \o <<" ">>), PStr(GapLines),
     PStr(Rep("a", TextLimit)), PStr(Rep("a", TextLimit + 1)),
     PStr(<<" ">> \o Rep("a", TextLimit))}

PrimarySizes ==
    {PInt(7), PInt(8), PInt(16), PInt(72), PInt(73), PStr(<<"1", "6">>),
     PStr(<<"x">>), PNone, PInf, PFloat(33)}

PrimaryColors ==
    {PStr(Black), PStr(Red), PStr(NamedRed), PStr(Short), PStr(NonHex),
     PStr(Signed), PStr(Prefixed), PNone}

PrimaryCalls ==
    {Call([DefaultArgs EXCEPT !.text = t, !.font_size = f, !.color = c]) :
        t \in PrimaryTexts, f \in PrimarySizes, c \in PrimaryColors}

\* the effects, all values of the right type
EffectCalls ==
    {Call([DefaultArgs EXCEPT
              !.shadow_enabled = se, !.shadow_blur = PInt(sb), !.shadow_color = PStr(sc),
              !.outline_enabled = oe, !.outline_size = PInt(os), !.outline_color = PStr(oc),
              !.gradient_enabled = ge, !.gradient_color = PStr(gc)]) :
        se \in BOOLEAN, sb \in {-1, 0, 2, ShadowBlurMax + 1}, sc \in {Blue, NonHex, NamedRed},
        oe \in BOOLEAN, os \in {-1, 0, 1, OutlineSizeMax, OutlineSizeMax + 1},
        oc \in {Red, NonHex},
        ge \in BOOLEAN, gc \in {White, NonHex, NamedRed}}

\* the effects, one value of another type at a time
OddValues == {PStr(<<"5">>), PNone, PInt(3)}

TypedCalls ==
    {Call([DefaultArgs EXCEPT ![f] = v, !.shadow_enabled = on,
                              !.outline_enabled = on, !.gradient_enabled = on]) :
        f \in {"shadow_blur", "shadow_color", "outline_size", "outline_color",
               "gradient_color"},
        v \in OddValues, on \in BOOLEAN}

\* layout: line height, glyph metrics, paddings
LineHeights ==
    {PFloat(4), PFloat(5), PFloat(10), PFloat(1), PFloat(11),
     PStr(<<"2", ".", "0">>), PStr(<<"a", "b", "c">>), PNone}

LayoutCalls ==
    {[args |-> [DefaultArgs EXCEPT !.line_height = PFloat(lh),
                                   !.shadow_enabled = se, !.shadow_blur = PInt(3),
                                   !.outline_enabled = oe, !.outline_size = PInt(2)],
      env |-> [DefaultEnv(DefaultArgs.text) EXCEPT !.bbox = m]] :
        lh \in {1, LineHeightMinQ, LineHeightMinQ + 1, LineHeightDefaultQ, LineHeightMaxQ},
        se \in BOOLEAN, oe \in BOOLEAN, m \in Metrics(DefaultArgs.text)}

OddLineHeights == {PNaN, PInf, PInt(2), PInt(3), PStr(<<" ", "1", ".", "2", "5">>)}

LineHeightCalls ==
    {Call([DefaultArgs EXCEPT !.line_height = lh, !.text = t]) :
        lh \in LineHeights \cup OddLineHeights, t \in {PStr(TwoLines), PStr(GapLines)}}

\* fonts and the disk
FontCalls ==
    {[args |-> [DefaultArgs EXCEPT !.font_name = fn, !.gradient_enabled = ge],
      env |-> [DefaultEnv(DefaultArgs.text) EXCEPT !.fs = fs, !.save_ok = ok]] :
        fn \in {PStr(NotoSansJP), PStr(CustomPath), PNone}, ge \in BOOLEAN,
        fs \in FsStates, ok \in BOOLEAN}

Calls ==
    PrimaryCalls \cup EffectCalls \cup TypedCalls \cup LayoutCalls
    \cup LineHeightCalls \cup FontCalls

Init ==
    /\ \E c \in Calls :
          /\ args = c.args
          /\ env = c.env
          /\ loc = InitLoc(c.args)
    /\ pc = "validate_text"
    /\ heap = <<>>
    /\ saved = NoFile
    /\ result = Pending
    /\ vcall = NoCall
    /\ vret = Pending
    /\ prev = NoRun

Next == Render

Spec == Init /\ [][Next]_vars

-----------------------------------------------------------------------------
(* The same call made twice: when a call has ended its outcome is kept in  *)
(* prev and generate_transparent_text is entered again with the same       *)
(* arguments and the same font files.  What the first call leaves behind   *)
(* is the file at output_path; the module has no state of its own and the  *)
(* locals and images of a call are new (lines 124-126).                    *)

RepeatedCalls ==
    PrimaryCalls \cup EffectCalls \cup TypedCalls \cup LineHeightCalls \cup FontCalls

InitTwice ==
    /\ \E c \in RepeatedCalls :
          /\ args = c.args
          /\ env = c.env
          /\ loc = InitLoc(c.args)
    /\ pc = "validate_text"
    /\ heap = <<>>
    /\ saved = NoFile
    /\ result = Pending
    /\ vcall = NoCall
    /\ vret = Pending
    /\ prev = NoRun

CallAgain ==
    /\ pc = "done"
    /\ prev = NoRun
    /\ prev' = [k |-> "run", loc |-> loc, heap |-> heap, saved |-> saved,
                result |-> result]
    /\ pc' = "validate_text"
    /\ loc' = InitLoc(args)
    /\ heap' = <<>>
    /\ result' = Pending
    /\ UNCHANGED <<args, env, saved, vcall, vret>>

NextTwice == Render \/ CallAgain

SpecTwice == InitTwice /\ [][NextTwice]_vars

-----------------------------------------------------------------------------
(* The validators, hex_to_rgb and load_font called directly, each on a     *)
(* range of arguments.                                                     *)

Digits == <<"0", "1", "2", "3", "4", "5", "6", "7", "8", "9">>

\* str(n) for n >= 0
RECURSIVE Dec(_)
Dec(n) == IF n < 10 THEN <<Digits[n + 1]>> ELSE Append(Dec(n \div 10), Digits[(n % 10) + 1])

TextBodies == {<<>>, <<"b", "\n">>, <<"b", "\r">>, <<"\f", "\t", "<">>}

TextInputs ==
    {PNone, PInt(0), PInt(5)}
    \cup {PStr(Rep(" ", l) \o b \o Rep("a", n) \o Rep(" ", t)) :
            l \in 0..MaxPad, b \in TextBodies, n \in 0..(TextLimit + 1), t \in 0..MaxPad}

\* texts for sanitize_text: short ones and ones about the cap, with
\* characters html.escape lengthens
SanitizeInputs ==
    {PNone, PInt(5)}
    \cup {PStr(Rep(" ", l) \o b \o Rep("a", n) \o Rep(" ", t)) :
            l \in 0..1, b \in TextBodies \cup {<<"&", "\r", "'">>},
            n \in (0..MaxPad) \cup ((SanitizeLimit - 12)..(SanitizeLimit + 1)), t \in 0..1}

SizeInputs ==
    {PInt(n) : n \in (0 - 2)..(FontSizeMax + 8)}
    \cup {PStr(Dec(n)) : n \in 0..(FontSizeMax + 8)}
    \cup {PStr(Rep(" ", l) \o Dec(n) \o Rep(" ", l)) :
            l \in 1..MaxPad, n \in {FontSizeMin - 1, FontSizeMin, FontSizeMax, FontSizeMax + 1}}
    \cup {PStr(<<"8", ".", "0">>), PStr(<<"+", "8">>), PStr(<<"-", "8">>),
          PStr(<<"7", "_", "2">>), PStr(<<"0", "x", "1", "0">>), PStr(<<"a", "b", "c">>),
          PStr(<<>>), PNone, PInf, PNaN}
    \cup {PFloat(q) : q \in (4 * FontSizeMin - 5)..(4 * FontSizeMin + 5)}
    \cup {PFloat(q) : q \in (4 * FontSizeMax - 5)..(4 * FontSizeMax + 5)}

ColorChars == {"0", "F", "g", "+", "_", " ", "x"}

\* '#', up to MaxAffix characters of ColorChars, zeros, and at most one
\* character of ColorChars at the end
Affixes(n) == UNION {[1..m -> ColorChars] : m \in 0..n}

ColorInputs ==
    {PStr(<<"#">> \o p \o Rep("0", ColorLen - 1 - Len(p) - Len(q)) \o q) :
        p \in Affixes(MaxAffix), q \in Affixes(1)}
    \cup {PStr(c) : c \in {Black, Red, Blue, White, NamedRed, NonHex, Signed, Prefixed,
                          Short, <<>>, Tail(Black), Black \o <<"0">>, <<"0">> \o Tail(Black),
                          <<"#", "#", "1", "2", "3", "4", "5">>}}
    \cup {PNone, PInt(0)}

EffectColorInputs ==
    {PStr(c) : c \in {Black, Red, Blue, White, NamedRed, NonHex, Signed, Prefixed,
                      Short, <<>>, Tail(Black), Black \o <<"0">>,
                      <<"#", "#", "1", "2", "3", "4", "5">>}}
    \cup {PNone, PInt(0)}

BlurInputs == {PInt(n) : n \in (0 - 2)..(ShadowBlurMax + 2)} \cup {PStr(<<"5">>), PNone}

OutlineSizeInputs ==
    {PInt(n) : n \in (0 - 2)..(OutlineSizeMax + 2)} \cup {PStr(<<"1">>), PNone}

LineHeightInputs ==
    {PFloat(q) : q \in (0 - 1)..(LineHeightMaxQ + 4)}
    \cup {PInt(n) : n \in 0..3}
    \cup LineHeights \cup OddLineHeights
    \cup {PStr(<<"n", "a", "n">>), PStr(<<"i", "n", "f">>), PStr(<<"2", ".", "5">>),
          PStr(<<"2", ".", "7", "5">>), PStr(<<"-", "1", ".", "5">>), PStr(<<>>),
          PStr(<<"1", ".", "5", ".", "0">>)}

\* colors for apply_gradient: channels going up, down and staying, and a
\* signed string that validate_color lets through
Indigo == <<"#", "5", "A", "0", "0", "D", "C">>
Teal == <<"#", "0", "1", "5", "b", "b", "4">>
Minus == <<"#", "-", "1", "2", "3", "4", "5">>

GradientColors == {Black, White, Indigo, Teal, Minus}

\* canvas heights: one row, ten rows, the smallest canvas of the pipeline
GradientHeights == {1, 10, 2 * BasePadding * ScaleFactor}

DirectCalls ==
    {[fn |-> "validate_text_input", a |-> <<t>>] : t \in TextInputs}
    \cup {[fn |-> "validate_font_size", a |-> <<x>>] : x \in SizeInputs}
    \cup {[fn |-> "validate_color", a |-> <<c>>] : c \in ColorInputs}
    \cup {[fn |-> "validate_shadow", a |-> <<PBool(e), b, c>>] :
            e \in BOOLEAN, b \in BlurInputs, c \in EffectColorInputs}
    \cup {[fn |-> "validate_outline", a |-> <<PBool(e), b, c>>] :
            e \in BOOLEAN, b \in OutlineSizeInputs, c \in EffectColorInputs}
    \cup {[fn |-> "validate_gradient", a |-> <<PBool(e), c>>] :
            e \in BOOLEAN, c \in EffectColorInputs}
    \cup {[fn |-> "check_line_height", a |-> <<x>>] : x \in LineHeightInputs}
    \cup {[fn |-> "sanitize_text", a |-> <<t>>] : t \in SanitizeInputs}
    \cup {[fn |-> "hex_to_rgb", a |-> <<c>>] : c \in {x \in ColorInputs : x.t = "str"}}
    \cup {[fn |-> "load_font", a |-> <<n, PInt(z), fs>>] :
            n \in {PStr(NotoSansJP), PStr(CustomPath), PNone},
            z \in {FontSizeMin, FontSizeMin * ScaleFactor, FontSizeMax * ScaleFactor},
            fs \in FsStates}
    \cup {[fn |-> "apply_gradient", a |-> <<PStr(c), PStr(g), PInt(h)>>] :
            c \in GradientColors, g \in GradientColors, h \in GradientHeights}

InitV ==
    /\ vcall \in DirectCalls
    /\ vret = Pending
    /\ pc = "direct"
    /\ args = DefaultArgs
    /\ env = DefaultEnv(DefaultArgs.text)
    /\ loc = InitLoc(DefaultArgs)
    /\ heap = <<>>
    /\ saved = NoFile
    /\ result = Pending
    /\ prev = NoRun

Returns(fn, out) ==
    /\ vcall.fn = fn
    /\ vret = Pending
    /\ vret' = out
    /\ UNCHANGED <<pc, args, env, loc, heap, saved, result, vcall, prev>>

CallValidateText == Returns("validate_text_input", validate_text_input(vcall.a[1]))

CallSanitizeText == Returns("sanitize_text", sanitize_text(vcall.a[1]))

CallValidateFontSize == Returns("validate_font_size", validate_font_size(vcall.a[1]))

CallValidateColor == Returns("validate_color", validate_color(vcall.a[1]))

CallValidateShadow ==
    Returns("validate_shadow", validate_shadow(vcall.a[1].b, vcall.a[2], vcall.a[3]))

CallValidateOutline ==
    Returns("validate_outline", validate_outline(vcall.a[1].b, vcall.a[2], vcall.a[3]))

CallValidateGradient ==
    Returns("validate_gradient", validate_gradient(vcall.a[1].b, vcall.a[2]))

CallCheckLineHeight == Returns("check_line_height", Ok(check_line_height(vcall.a[1])))

CallHexToRgb == Returns("hex_to_rgb", hex_to_rgb(vcall.a[1].s))

CallLoadFont == Returns("load_font", load_font(vcall.a[1], vcall.a[2].i, vcall.a[3]))

CallApplyGradient ==
    Returns("apply_gradient", gradient_rows(vcall.a[1].s, vcall.a[2].s, vcall.a[3].i))

\* the validators of lines 128-144, which take back what they return
CoreValidators ==
    {"validate_text_input", "validate_font_size", "validate_color", "validate_shadow",
     "validate_outline", "validate_gradient", "check_line_height"}

\* a returned value as the arguments of the next call
AsArguments(fn, v) ==
    CASE fn \in {"validate_shadow", "validate_outline"} -> <<PBool(v[1]), v[2], v[3]>>
      [] fn = "validate_gradient" -> <<PBool(v[1]), v[2]>>
      [] OTHER -> <<v>>

\* the caller validates the value it got back once more
Revalidate ==
    /\ vcall.fn \in CoreValidators
    /\ IsOk(vret)
    /\ prev = NoRun
    /\ prev' = [k |-> "call", call |-> vcall, ret |-> vret]
    /\ vcall' = [fn |-> vcall.fn, a |-> AsArguments(vcall.fn, vret.v)]
    /\ vret' = Pending
    /\ UNCHANGED <<pc, args, env, loc, heap, saved, result>>

NextV ==
    \/ CallValidateText \/ CallValidateFontSize \/ CallValidateColor
    \/ CallValidateShadow \/ CallValidateOutline \/ CallValidateGradient
    \/ CallCheckLineHeight \/ CallHexToRgb \/ CallLoadFont
    \/ CallSanitizeText \/ CallApplyGradient
    \/ Revalidate

SpecV == InitV /\ [][NextV]_vars

-----------------------------------------------------------------------------
(* Vocabulary of the properties *)

\* the pattern ^#[0-9A-Fa-f]{6}$
HexPattern(c) ==
    /\ Len(c) = 7
    /\ c[1] = "#"
    /\ \A j \in 2..7 : c[j] \in DigitChars

\* a direct call of fn has returned or raised
Done(fn) == vcall.fn = fn /\ vret # Pending

\* the statements of generate_transparent_text in program order
PcOrder ==
    <<"validate_text", "validate_font_size", "validate_color", "validate_shadow",
      "validate_outline", "validate_gradient", "line_height", "load_font",
      "load_scaled_font", "temp_img", "measure", "canvas_size", "canvas",
      "line", "shadow", "outline", "fill", "resize", "save", "end">>

Idx(p) == CHOOSE k \in 1..Len(PcOrder) : PcOrder[k] = p

\* the statement about to run, or the one that raised, or "end"
Progress ==
    IF pc \in {"except", "finally", "done"}
    THEN IF loc.exc_at = "none" THEN Idx("end") ELSE Idx(loc.exc_at)
    ELSE IF pc = "direct" THEN 0 ELSE Idx(pc)

\* statement p has run to its end (for a statement of the loop: once)
Completed(p) == Progress > Idx(p)

\* text, font_size and color are valid in the strict sense of the spec
PrimaryValid ==
    /\ IsOk(validate_text_input(args.text))
    /\ IsOk(validate_font_size(args.font_size))
    /\ args.color.t = "str" /\ HexPattern(args.color.s)

EffectColorFields == {"shadow_color", "outline_color", "gradient_color"}

\* every effect argument has its declared type
EffectsTyped ==
    /\ args.shadow_blur.t = "int" /\ args.outline_size.t = "int"
    /\ \A f \in EffectColorFields : args[f].t = "str"

\* every effect argument is in range and every effect color matches the pattern
EffectsWellFormed ==
    /\ EffectsTyped
    /\ \A f \in EffectColorFields : HexPattern(args[f].s)

-----------------------------------------------------------------------------
(* C1 *)

\* C1: a text is accepted by validate_text_input if and only if its length
\* after trimming is between 1 and 100, whatever its untrimmed length;
\* every other text is rejected with the text validation error.
C1_TextAcceptedIffTrimmedLengthInRange ==
    (Done("validate_text_input") /\ vcall.a[1].t = "str") =>
        LET n == Len(Strip(vcall.a[1].s))
        IN  IF 1 <= n /\ n <= 100
            THEN vret = Ok(PStr(Strip(vcall.a[1].s)))
            ELSE Raises(vret, "ValueError")

-----------------------------------------------------------------------------
(* C2 *)

\* C2: validate_font_size returns the integer value of an integer-coercible
\* font_size in 8..72, and rejects every other value (below 8, above 72 or
\* not integer-coercible) with the font-size validation error.
C2_FontSizeAcceptedIffInRange ==
    Done("validate_font_size") =>
        LET r == PyInt(vcall.a[1])
        IN  IF IsOk(r) /\ 8 <= r.v /\ r.v <= 72
            THEN vret = Ok(PInt(r.v))
            ELSE vret = Exc("ValueError", "invalid_font_size")

-----------------------------------------------------------------------------
(* C3 *)

\* C3: validate_color accepts the primary color if and only if it is a
\* string matching ^#[0-9A-Fa-f]{6}$; every other value is rejected with
\* the color validation error.
C3_ColorAcceptedIffHexPattern ==
    Done("validate_color") =>
        IF vcall.a[1].t = "str" /\ HexPattern(vcall.a[1].s)
        THEN vret = Ok(vcall.a[1])
        ELSE vret = Exc("ValueError", "invalid_color")

-----------------------------------------------------------------------------
(* C4 *)

\* C4: every shadow, outline or gradient color string that is not '#' and
\* six hex digits is replaced by "#000000" by its validator, and the render
\* of an otherwise valid call then succeeds.
C4_MalformedEffectColorsBecomeBlack ==
    /\ Completed("validate_gradient") =>
          \A f \in EffectColorFields :
              (args[f].t = "str" /\ ~HexPattern(args[f].s)) => loc[f] = PStr(Black)
    /\ (pc = "done" /\ PrimaryValid /\ EffectsTyped /\ env.save_ok) =>
          (IsOk(result) /\ saved.k = "file")

-----------------------------------------------------------------------------
(* C5 *)

\* the values the spec documents for the secondary numeric parameters
C5_Blur == IF args.shadow_blur.i \in 0..20 THEN args.shadow_blur.i ELSE 5

C5_OutlineSize == IF args.outline_size.i \in 0..5 THEN args.outline_size.i ELSE 1

C5_LineHeightQ ==
    LET r == PyFloat(args.line_height)
    IN  IF IsOk(r) /\ r.v.t = "float" /\ 4 <= r.v.q /\ r.v.q <= 10 THEN r.v.q ELSE 6

RECURSIVE C5_Advance(_)
C5_Advance(n) ==
    IF n = 0 THEN 0
    ELSE C5_Advance(n - 1) + ((loc.line_sizes[n][2] * C5_LineHeightQ) \div 4)

-----------------------------------------------------------------------------
(* C6 *)

\* C6: with valid text, font_size and primary color, no value of the
\* effect parameters makes generate_transparent_text raise.
C6_EffectParametersNeverRaise ==
    (pc = "done" /\ PrimaryValid /\ env.save_ok) => IsOk(result)

-----------------------------------------------------------------------------
(* C7 *)

\* the font identifier is a custom font path that is not on disk
MissingCustomFont == args.font_name = PStr(CustomPath) /\ ~env.fs.isfile

-----------------------------------------------------------------------------
(* C8 *)

\* the custom font or the bundled default font cannot be loaded
C8_LoadFailure(font_name, fs) ==
    \/ font_name.t # "str"
    \/ fs.isfile /\ ~fs.custom_loads
    \/ ~fs.isfile /\ ~(fs.default_exists /\ fs.default_loads)

\* C8: load_font always returns a font handle, and returns the built-in
\* font whenever the custom or the default font cannot be loaded.
C8_LoadFontNeverFails ==
    Done("load_font") =>
        /\ IsOk(vret.out)
        /\ vret.out.v.t = "font"
        /\ C8_LoadFailure(vcall.a[1], vcall.a[3]) => vret.out.v.src = "builtin"

C8_Witness ==
    /\ Done("load_font")
    /\ vcall.a[1] = PStr(CustomPath) /\ vcall.a[3].isfile /\ ~vcall.a[3].custom_loads
    /\ vret.out = Ok(Font("builtin", 0))

-----------------------------------------------------------------------------
(* C9 *)

C9_TotalWidth ==
    LET ws == {loc.line_sizes[j][1] : j \in 1..Len(loc.line_sizes)}
    IN  CHOOSE w \in ws : \A v \in ws : w >= v

RECURSIVE C9_TotalHeightQ(_)
C9_TotalHeightQ(n) ==
    IF n = 0 THEN 0
    ELSE C9_TotalHeightQ(n - 1) + loc.line_sizes[n][2] * loc.line_height.q

C9_ShadowPadding == IF loc.shadow_enabled THEN loc.shadow_blur.i * 2 * 4 ELSE 0

C9_OutlinePadding == IF loc.outline_enabled THEN loc.outline_size.i * 2 * 4 ELSE 0

\* C9: the saved image is floor(W/4) by floor(H/4) with
\* W = total_width + 2*80 + shadow_padding + outline_padding and
\* H = trunc(total_height + 2*80 + shadow_padding + outline_padding);
\* both are at least 40.
C9_OutputSize ==
    saved.k = "file" =>
        LET W == C9_TotalWidth + 2 * 80 + C9_ShadowPadding + C9_OutlinePadding
            H == (C9_TotalHeightQ(Len(loc.line_sizes))
                  + 4 * (2 * 80 + C9_ShadowPadding + C9_OutlinePadding)) \div 4
        IN  /\ saved.w = W \div 4
            /\ saved.h = H \div 4
            /\ saved.w >= 40
            /\ saved.h >= 40

\* a saved render of two lines of different sizes at line height 1.25 with
\* both paddings, where truncation matters
C9_Witness ==
    /\ saved.k = "file"
    /\ loc.shadow_enabled /\ loc.outline_enabled
    /\ loc.line_height = PFloat(5)
    /\ loc.line_sizes = <<<<3, 3>>, <<1, 2>>>>
    /\ saved.w = 50 /\ saved.h = 51

-----------------------------------------------------------------------------
(* C10 *)

\* the places in the saved image of the layers of the given kinds of line n
C10_At(kinds, n) ==
    {j \in 1..Len(saved.layers) :
        saved.layers[j].kind \in kinds /\ saved.layers[j].line = n}

\* C10: in the saved image every line has its enabled layers, the fill on
\* top of the outline on top of the shadow.
C10_LayersInOrder ==
    saved.k = "file" =>
        \A n \in 1..Len(loc.lines) :
            LET S == C10_At({"shadow"}, n)
                O == C10_At({"outline"}, n)
                F == C10_At({"fill", "gradient"}, n)
            IN  /\ loc.shadow_enabled => S # {}
                /\ (loc.outline_enabled /\ loc.outline_size.i > 0) => O # {}
                /\ F # {}
                /\ \A a \in S, b \in O \cup F : a < b
                /\ \A a \in O, b \in F : a < b

-----------------------------------------------------------------------------
(* C11 *)

\* C11: when generate_transparent_text has returned or raised, every image
\* allocated during the call has been closed.
C11_AllBuffersReleased ==
    pc = "done" => \A j \in 1..Len(heap) : heap[j].closed

-----------------------------------------------------------------------------
(* C12 *)

\* C12: the call returns normally exactly when the image was written;
\* whatever a statement raised leaves the call unchanged, after the
\* cleanup, and carries a message.
C12_SavedOrRaised ==
    pc = "done" =>
        /\ IsOk(result) <=> saved.k = "file"
        /\ loc.exc_at = "none" <=> IsOk(result)
        /\ ~IsOk(result) =>
              /\ result = loc.exc
              /\ result.k = "exc"
              /\ result.msg # ""
              /\ \A j \in {loc.temp_img, loc.img, loc.text_mask} \ {0} : heap[j].closed

\* a render that failed at the file write, after every buffer was allocated
C12_Witness ==
    /\ pc = "done"
    /\ loc.exc_at = "save"
    /\ result = Exc("OSError", "cannot write file")
    /\ saved = NoFile
    /\ Len(heap) >= 4

-----------------------------------------------------------------------------
(* C13 *)

-----------------------------------------------------------------------------
(* C14 *)

\* C14: the text returned by validate_text_input, and the text returned by
\* sanitize_text, holds no control character other than newline and tab.
C14_NoControlCharacters ==
    ((Done("validate_text_input") \/ Done("sanitize_text")) /\ IsOk(vret)) =>
        \A j \in 1..Len(vret.v.s) : vret.v.s[j] \notin ControlChars

-----------------------------------------------------------------------------
(* C15 *)

\* every outline, fill and gradient layer drawn on some image of the call
C15_Drawn ==
    UNION {{heap[j].layers[k] : k \in {m \in 1..Len(heap[j].layers) :
                heap[j].layers[m].kind \in {"outline", "fill", "gradient"}}} :
           j \in 1..Len(heap)}

\* C15: every outline stamp and every fill or gradient drawn for a line is
\* on the canvas that is downsampled and saved; none is made onto a canvas
\* that a shadow or gradient pass has replaced.
C15_DrawsReachSavedCanvas ==
    saved.k = "file" =>
        \A l \in C15_Drawn : \E k \in 1..Len(saved.layers) : saved.layers[k] = l

-----------------------------------------------------------------------------
(* C16 *)

\* C16: on every canvas, the shadow of a line lies under whatever was
\* drawn before for an earlier line: no fill, outline or gradient of a
\* line before i lies below the shadow of line i.
C16_ShadowUnderCanvas ==
    \A j \in 1..Len(heap) :
        \A a, b \in 1..Len(heap[j].layers) :
            (a < b /\ heap[j].layers[b].kind = "shadow") =>
                ~(/\ heap[j].layers[a].kind \in {"fill", "outline", "gradient"}
                  /\ heap[j].layers[a].line < heap[j].layers[b].line)

-----------------------------------------------------------------------------
(* C17 *)

\* C17: the mask handed to apply_shadow or apply_gradient for line i covers
\* the glyphs of line i and of no other line.
C17_MaskCoversOneLine ==
    \A j \in 1..Len(heap) :
        \A k \in 1..Len(heap[j].layers) :
            heap[j].layers[k].kind \in {"shadow", "gradient"} =>
                heap[j].layers[k].cover = {heap[j].layers[k].line}

-----------------------------------------------------------------------------
(* C18 *)

\* C18: with validated outline_size s, the outline of a line is drawn with
\* (2s+1)^2 - 1 stamps, never more than 120.
C18_OutlineStampCount ==
    Completed("validate_outline") =>
        \A j \in 1..Len(heap) :
            \A k \in 1..Len(heap[j].layers) :
                heap[j].layers[k].kind = "outline" =>
                    /\ heap[j].layers[k].n
                          = (2 * loc.outline_size.i + 1) * (2 * loc.outline_size.i + 1) - 1
                    /\ heap[j].layers[k].n <= 120

-----------------------------------------------------------------------------
(* C20 *)

\* one step of the call keeps the order of the stages: the next statement
\* of the program order, the next line of the loop, or the way out through
\* except and finally
C20_Step ==
    pc' # pc =>
        CASE pc' = "except" -> pc \notin {"except", "finally", "done"}
          [] pc' = "finally" -> pc \in {"save", "except"}
          [] pc' = "done" -> pc = "finally"
          [] pc' = "line" -> pc \in {"canvas", "fill"}
          [] pc' = "resize" -> pc = "fill"
          [] OTHER -> Idx(pc') = Idx(pc) + 1

\* what each stage has and has not done
C20_State ==
    /\ Len(loc.font_calls) <= 2
    /\ Completed("load_font") => loc.font_calls[1].size = loc.font_size.i
    /\ Completed("load_scaled_font") =>
          /\ Len(loc.font_calls) = 2
          /\ loc.font_calls[2].size = loc.font_size.i * 4
    /\ loc.font_uses = (IF Completed("measure") THEN {loc.scaled_font} ELSE {})
    /\ heap # <<>> => Completed("load_scaled_font")
    /\ saved.k = "file" => (Completed("resize") /\ pc \in {"finally", "done"})
    /\ loc.exc_at \in {"validate_text", "validate_font_size", "validate_color"} =>
          (loc.font_calls = <<>> /\ heap = <<>> /\ saved = NoFile)

\* C20: the stages run in the order validation (text, font_size, color,
\* shadow, outline, gradient, line_height), font resolution, layout,
\* per-line compositing, downscale, save; load_font is called twice, with
\* font_size and then font_size * 4, and only the second handle measures
\* and draws; a failed text, font_size or color validation loads no font,
\* allocates no buffer and writes nothing.
C20_StagesInOrder == [][C20_Step]_vars /\ []C20_State

\* a finished render with the bundled font: two handles, the second in use
C20_Witness ==
    /\ pc = "done" /\ IsOk(result)
    /\ loc.font = Font("default", 16)
    /\ loc.scaled_font = Font("default", 64)
    /\ loc.font_uses = {Font("default", 64)}
    /\ Len(loc.font_calls) = 2

\* C19: in apply_gradient, for a canvas of height H and every row y in
\* 0..H-1, each RGB channel equals trunc(start + (end - start) * y / H)
\* with start taken from color and end from gradient_color: row 0 is the
\* start color, each channel is monotone in y, lies between start and end
\* and is a valid 0..255 channel value.
ExactTrunc(n, d) == IF n >= 0 THEN n \div d ELSE 0 - ((0 - n) \div d)

ExactChannel(start, end, y, height) ==
    ExactTrunc(start * height + (end - start) * y, height)

Between(v, a, b) == (a <= v /\ v <= b) \/ (b <= v /\ v <= a)

C19_Rows(rows, start, end, height) ==
    \A i \in 1..3 :
        /\ rows[1][i] = start[i]
        /\ \A y \in 0..(height - 1) :
              /\ rows[y + 1][i] = ExactChannel(start[i], end[i], y, height)
              /\ Between(rows[y + 1][i], start[i], end[i])
              /\ rows[y + 1][i] \in 0..255
              /\ y > 0 /\ end[i] >= start[i] => rows[y + 1][i] >= rows[y][i]
              /\ y > 0 /\ end[i] < start[i] => rows[y + 1][i] <= rows[y][i]

C19_GradientRowColors ==
    vcall.fn = "apply_gradient" /\ IsOk(vret)
    => C19_Rows(vret.v, hex_to_rgb(vcall.a[1].s).v, hex_to_rgb(vcall.a[2].s).v,
                vcall.a[3].i)

\* C21: applying a core validator (validate_text_input, validate_font_size,
\* validate_color, validate_shadow, validate_outline, validate_gradient, the
\* line-height check) to its own output raises nothing and returns exactly
\* the same value.
C21_ValidatorsIdempotent ==
    prev.k = "call" /\ vret # Pending => vret = prev.ret

\* a validator that changed its input has been applied to its output
C21_Witness ==
    /\ prev.k = "call"
    /\ vret = prev.ret
    /\ vcall.fn = "validate_shadow"
    /\ vcall.a # prev.call.a

\* C22: load_font tries the sources in the order custom path, bundled
\* default font, minimal built-in font: when the custom font file exists but
\* fails to load, the bundled default is tried next, and the built-in font
\* is used only when the bundled default is unavailable or fails to load.
C22_Rank(src) == CASE src = "custom" -> 1 [] src = "default" -> 2 [] OTHER -> 3

C22_Chain(fs, out, tried) ==
    /\ \A i \in 1..(Len(tried) - 1) : C22_Rank(tried[i]) < C22_Rank(tried[i + 1])
    /\ fs.isfile /\ ~fs.custom_loads /\ fs.default_exists
         => Len(tried) >= 2 /\ tried[1] = "custom" /\ tried[2] = "default"
    /\ out.v.src = "builtin" => ~(fs.default_exists /\ fs.default_loads)

C22_FallbackChain ==
    vcall.fn = "load_font" /\ vret # Pending /\ vcall.a[1].t = "str"
    => C22_Chain(vcall.a[3], vret.out, vret.tried)

\* C23: for every validated request and every line i, the line's draw box
\* stays inside the padded area of the supersampled canvas:
\* x_i = floor((W - width_i)/2) >= 80 + (shadow_padding + outline_padding)/2,
\* y_0 = 80 + shadow_padding/2 + outline_padding/2,
\* y_{i+1} = y_i + trunc(height_i * line_height), and
\* y_i + height_i <= H - 80 - (shadow_padding + outline_padding)/2.
RECURSIVE C23_Advance(_, _, _)
C23_Advance(sizes, n, lh_q) ==
    IF n = 0 THEN 0
    ELSE C23_Advance(sizes, n - 1, lh_q) + ((sizes[n][2] * lh_q) \div 4)

\* twice the margin 80 + (shadow_padding + outline_padding)/2
C23_Margin2(l) == 2 * BasePadding * ScaleFactor + l.shadow_padding + l.outline_padding

C23_Top(l) ==
    /\ 2 * l.y = C23_Margin2(l) + 2 * C23_Advance(l.line_sizes, l.i - 1, l.line_height.q)
    /\ l.i <= Len(l.lines)
         => 2 * (l.y + l.line_sizes[l.i][2]) <= 2 * l.img_height - C23_Margin2(l)

C23_Left(l) ==
    /\ l.x = (l.img_width - l.line_sizes[l.i][1]) \div 2
    /\ 2 * l.x >= C23_Margin2(l)
    /\ l.x + l.line_sizes[l.i][1] <= l.img_width

C23_DrawBoxInsidePadding ==
    /\ pc \in {"line", "shadow", "outline", "fill", "resize"} => C23_Top(loc)
    /\ pc \in {"shadow", "outline", "fill"} => C23_Left(loc)

\* a later line of a request with effect padding, after a truncated advance
C23_Witness ==
    /\ pc = "fill"
    /\ loc.i >= 2
    /\ loc.shadow_padding + loc.outline_padding > 0
    /\ (loc.line_sizes[1][2] * loc.line_height.q) % 4 # 0
    /\ loc.line_sizes[loc.i][1] < loc.total_width

====
